---- MODULE Spec2Model ----
(***************************************************************************)
(* TypeNeon: the typing session of App.tsx (session state, keystroke       *)
(* handler, key heatmap, derived stats, provider requests and responses)   *)
(* and the falling-word game RainGame (animation tick, word spawning,      *)
(* keystroke matching, score, lives, level).                               *)
(*                                                                         *)
(* A JavaScript string is a sequence of one-character strings.  A React    *)
(* event handler runs to completion and its state updates are committed    *)
(* in one batch before the next event is delivered, so every handler is    *)
(* one action; a handler that awaits the provider is two actions, the      *)
(* part before the await and the continuation run when the promise         *)
(* resolves.  Promises of separate requests resolve in any order.          *)
(***************************************************************************)
EXTENDS Integers, Sequences, FiniteSets, TLC

VARIABLES
    mode,          \* GameMode of the App
    text,          \* reference text
    userInput,     \* typed input
    startTime,     \* start timestamp, NoStartTime when null
    isFinished,    \* finished flag
    keyStats,      \* Record<string, KeyStats>, in property insertion order
    loading,       \* loading flag
    aiAdvice,      \* advice text
    lastGameScore, \* score reported by the falling-word game
    textReqs,      \* generateLessonContent calls awaiting their response
    adviceReqs,    \* generateTypingAdvice calls awaiting their response
    words,         \* RainGame: active WordEntity list, in spawn order
    currentInput,  \* RainGame: current input
    score,         \* RainGame: score
    lives,         \* RainGame: lives
    level,         \* RainGame: level
    lastSpawnTime, \* RainGame: lastSpawnTime.current
    spawnRate,     \* RainGame: spawnRate.current
    wordReqs,      \* RainGame: generateGameWords calls awaiting their response
    frames         \* RainGame: animation frames requested and not yet run

\* the state of App
appVars == <<mode, text, userInput, startTime, isFinished, keyStats, loading,
             aiAdvice, lastGameScore, textReqs, adviceReqs>>

\* the state of RainGame
gameVars == <<words, currentInput, score, lives, level, lastSpawnTime, spawnRate,
              wordReqs, frames>>

vars == <<appVars, gameVars>>

----------------------------------------------------------------------------
(* Bounds of the model *)

MaxTextLen == 2   \* characters kept of each fixed text of the program
MaxTime == 2      \* last clock instant
MaxPending == 2   \* outstanding provider requests
MaxAttempts == 2  \* keystroke attempts recorded in the heatmap
MaxInputLen == 3  \* length of the typed input
MaxStatsAttempts == 3  \* keystroke attempts recorded under StatsSpec

----------------------------------------------------------------------------
(* Constants of the program *)

LESSON == "LESSON"
ZEN == "ZEN"
GAME_RAIN == "GAME_RAIN"

\* useState<number | null>(null); `!startTime` treats null and 0 alike
NoStartTime == 0

Take(s, n) == SubSeq(s, 1, IF Len(s) < n THEN Len(s) ELSE n)

\* "Welcome to TypeNeon. Start typing ..." cut to MaxTextLen characters
DEFAULT_TEXT == Take(<<"W", "e", "l", "c", "o", "m", "e">>, MaxTextLen)

\* "The quick brown fox jumps over the lazy dog." cut to MaxTextLen characters
LESSON_FALLBACK == Take(<<"T", "h", "e", " ", "q", "u", "i">>, MaxTextLen)

\* "Keep practicing! Accuracy is key to speed." cut to MaxTextLen characters
ADVICE_EMPTY_FALLBACK == Take(<<"K", "e", "e", "p", " ", "p", "r">>, MaxTextLen)

\* "Great job! Keep typing every day." cut to MaxTextLen characters
ADVICE_ERROR_FALLBACK == Take(<<"G", "r", "e", "a", "t", " ", "j">>, MaxTextLen)

\* k.total > 5 in handleLessonGenerate
LESSON_WEAK_MIN_TOTAL == 5

\* Math.max(..., 0.001) minutes in currentStats, in milliseconds
MIN_DURATION_MS == 60

\* .slice(0, 3) in weakKeysDisplay
WEAK_DISPLAY_COUNT == 3

----------------------------------------------------------------------------
(* Inputs *)

Backspace == "Backspace"
\* the keys with e.key.length === 1
PrintableKeys == {"c", "a", "p", "t", "r", "o", "k", "e"}
\* the keys pressed under Spec; "Shift" stands for every other key whose name
\* is longer than one character
Keys == {"a", Backspace, "Shift"}

\* What the provider may answer: a failed call, or a response whose text is
\* undefined/empty, blank, padded, or plain.
RawTexts == {<<>>, <<" ">>, <<" ", "a", " ">>, <<"c", "a", "t">>}
Outcomes == {[ok |-> FALSE, text |-> <<>>]} \cup
            {[ok |-> TRUE, text |-> t] : t \in RawTexts}
AdviceOutcomes == {[ok |-> FALSE, text |-> <<>>]} \cup
                  {[ok |-> TRUE, text |-> t] : t \in {<<>>, <<" ">>, <<" ", "a", " ">>}}

\* the score the falling-word game reports when no word was completed
GameScores == {0}

\* Date.now(): the clock is read by the handlers; it never runs backwards
Instants == 1 .. MaxTime

----------------------------------------------------------------------------
(* String helpers *)

IsSpace(c) == c = " "

RECURSIVE TrimStart(_)
TrimStart(s) ==
    IF s # <<>> /\ IsSpace(Head(s)) THEN TrimStart(Tail(s)) ELSE s

RECURSIVE TrimEnd(_)
TrimEnd(s) ==
    IF s # <<>> /\ IsSpace(s[Len(s)]) THEN TrimEnd(SubSeq(s, 1, Len(s) - 1)) ELSE s

\* String.prototype.trim
Trim(s) == TrimEnd(TrimStart(s))

\* a character taken as it is
KeepCase(c) == c

\* String.prototype.toLowerCase on the characters of the model
ToLowerCase(c) ==
    CASE c = "W" -> "w"
      [] c = "T" -> "t"
      [] OTHER -> c

\* prev.slice(0, -1)
DropLast(s) == IF s = <<>> THEN <<>> ELSE SubSeq(s, 1, Len(s) - 1)

\* Math.round(n / d) for n >= 0, d > 0: floor(n / d + 1/2)
RoundDiv(n, d) == (2 * n + d) \div (2 * d)

----------------------------------------------------------------------------
(* Key heatmap *)

\* text[i] past the end of the string
Undefined == "undefined"

\* text[userInput.length]
ExpectedChar(t, input) ==
    IF Len(input) < Len(t) THEN t[Len(input) + 1] ELSE Undefined

\* position of the entry keyed charKey, 0 when prev[charKey] is undefined
IndexOfKey(prev, charKey) ==
    IF \E i \in DOMAIN prev : prev[i].char = charKey
    THEN CHOOSE i \in DOMAIN prev : prev[i].char = charKey
    ELSE 0

\* a heatmap update that counts the attempt only when it is an error
recordAttemptErrorsOnly(prev, expectedChar, isCorrect) ==
    LET charKey == IF expectedChar = Undefined THEN "" ELSE ToLowerCase(expectedChar)
        i == IndexOfKey(prev, charKey)
        current == IF i # 0 THEN prev[i]
                   ELSE [char |-> charKey, total |-> 0, errors |-> 0]
        updated == [current EXCEPT
                      !.total = IF isCorrect THEN @ ELSE @ + 1,
                      !.errors = @ + 1]
    IN  IF charKey = "" THEN prev
        ELSE IF i # 0 THEN [prev EXCEPT ![i] = updated]
        ELSE Append(prev, updated)

\* the updater handed to setKeyStats
recordAttempt(prev, expectedChar, isCorrect) ==
    LET charKey == IF expectedChar = Undefined THEN "" ELSE ToLowerCase(expectedChar)
        i == IndexOfKey(prev, charKey)
        current == IF i # 0 THEN prev[i]
                   ELSE [char |-> charKey, total |-> 0, errors |-> 0]
        updated == [current EXCEPT
                      !.total = @ + 1,
                      !.errors = IF isCorrect THEN @ ELSE @ + 1]
    IN  IF charKey = "" THEN prev
        ELSE IF i # 0 THEN [prev EXCEPT ![i] = updated]
        ELSE Append(prev, updated)

\* (k.errors / k.total) > num / den; 0/0 is NaN and compares false,
\* n/0 for n > 0 is Infinity and compares true
ErrorRateAbove(k, num, den) ==
    IF k.total = 0 THEN k.errors > 0
    ELSE k.errors * den > k.total * num

CharsOf(s) == [i \in DOMAIN s |-> s[i].char]

\* weakKeys of handleLessonGenerate
LessonWeakKeys(stats) ==
    LET Weak(k) == ErrorRateAbove(k, 1, 10) /\ k.total > LESSON_WEAK_MIN_TOTAL
    IN  CharsOf(SelectSeq(stats, Weak))

\* weakKeys of finishSession
AdviceWeakKeys(stats) ==
    LET Weak(k) == ErrorRateAbove(k, 1, 10)
    IN  CharsOf(SelectSeq(stats, Weak))

\* b.errors / (b.total || 1) - a.errors / (a.total || 1) > 0: b sorts before a
SortsBefore(b, a) ==
    LET bt == IF b.total = 0 THEN 1 ELSE b.total
        at == IF a.total = 0 THEN 1 ELSE a.total
    IN  b.errors * at > a.errors * bt

\* x put into the sorted sequence s behind every entry it does not sort before
RECURSIVE InsertSorted(_, _)
InsertSorted(s, x) ==
    IF s = <<>> THEN <<x>>
    ELSE IF SortsBefore(x, Head(s)) THEN <<x>> \o s
    ELSE <<Head(s)>> \o InsertSorted(Tail(s), x)

\* Array.prototype.sort with that comparator (a stable sort)
RECURSIVE SortByErrorRate(_)
SortByErrorRate(s) ==
    IF s = <<>> THEN <<>>
    ELSE InsertSorted(SortByErrorRate(DropLast(s)), s[Len(s)])

\* the entries shown under "Training Needed"
weakKeysDisplay(stats) ==
    LET HasErrors(k) == k.errors > 0
    IN  SelectSeq(Take(SortByErrorRate(stats), WEAK_DISPLAY_COUNT), HasErrors)

\* attempts recorded so far
RECURSIVE Attempts(_)
Attempts(stats) ==
    IF stats = <<>> THEN 0 ELSE Head(stats).total + Attempts(Tail(stats))

----------------------------------------------------------------------------
(* Derived stats *)

\* a reduce that compares every typed character with the first reference character
RECURSIVE CountErrorsFirstChar(_, _)
CountErrorsFirstChar(input, t) ==
    IF input = <<>> THEN 0
    ELSE CountErrorsFirstChar(DropLast(input), t)
         + (IF t # <<>> /\ input[Len(input)] = t[1] THEN 0 ELSE 1)

\* userInput.split('').reduce((acc, char, idx) => char !== text[idx] ? acc + 1 : acc, 0)
RECURSIVE CountErrors(_, _)
CountErrors(input, t) ==
    IF input = <<>> THEN 0
    ELSE CountErrors(DropLast(input), t)
         + (IF Len(input) <= Len(t) /\ input[Len(input)] = t[Len(input)] THEN 0 ELSE 1)

\* the useMemo value currentStats, evaluated at clock instant `at`
currentStats(input, t, start, at) ==
    LET charsTyped == Len(input)
        errors == CountErrors(input, t)
        elapsed == at - (IF start = NoStartTime THEN at ELSE start)
        durationMs == IF elapsed > MIN_DURATION_MS THEN elapsed ELSE MIN_DURATION_MS
    IN  [wpm |-> RoundDiv(charsTyped * 12000, durationMs),
         accuracy |-> IF charsTyped > 0
                      THEN RoundDiv((charsTyped - errors) * 100, charsTyped)
                      ELSE 100,
         timeElapsedMs |-> durationMs,
         mistakes |-> errors,
         charsTyped |-> charsTyped]

\* Math.round((chars / 5) / durationMin) with durationMin = durationMs / 60000:
\* Infinity when no time has passed (chars > 0)
FinalWpm(chars, durationMs) ==
    IF durationMs = 0 THEN [finite |-> FALSE, value |-> 0]
    ELSE [finite |-> TRUE, value |-> RoundDiv(chars * 12000, durationMs)]

----------------------------------------------------------------------------
(* Provider *)

\* generateLessonContent: response.text?.trim() || fallback, fallback on a throw
generateLessonContent(outcome) ==
    IF outcome.ok /\ Trim(outcome.text) # <<>> THEN Trim(outcome.text)
    ELSE LESSON_FALLBACK

\* generateTypingAdvice: response.text?.trim() || one fallback, another on a throw
generateTypingAdvice(outcome) ==
    IF ~outcome.ok THEN ADVICE_ERROR_FALLBACK
    ELSE IF Trim(outcome.text) # <<>> THEN Trim(outcome.text)
    ELSE ADVICE_EMPTY_FALLBACK

RemoveAt(s, i) == SubSeq(s, 1, i - 1) \o SubSeq(s, i + 1, Len(s))

\* Each outstanding text request remembers the mode that issued it and whether
\* it has been superseded since: the user switched to another mode, or a newer
\* text request was issued.  The program keeps no such token and never reads
\* `stale`; it is recorded for the properties about late responses.
Superseded(reqs, newMode, newRequest) ==
    [i \in DOMAIN reqs |->
        [reqs[i] EXCEPT !.stale = @ \/ newRequest \/ reqs[i].kind # newMode]]

----------------------------------------------------------------------------
(* Handlers of App *)

\* a reset that also empties the heatmap
resetSessionClearingStats ==
    /\ userInput' = <<>>
    /\ startTime' = NoStartTime
    /\ isFinished' = FALSE
    /\ aiAdvice' = <<>>
    /\ keyStats' = <<>>

\* resetSession: four setters; keyStats is not among them
resetSession ==
    /\ userInput' = <<>>
    /\ startTime' = NoStartTime
    /\ isFinished' = FALSE
    /\ aiAdvice' = <<>>
    /\ keyStats' = keyStats

handleModeChange(newMode) ==
    /\ mode' = newMode
    /\ resetSession
    /\ IF newMode = ZEN
       THEN /\ loading' = TRUE
            /\ textReqs' = Append(Superseded(textReqs, newMode, TRUE),
                                  [kind |-> ZEN, focusKeys |-> <<>>, stale |-> FALSE])
            /\ text' = text
       ELSE /\ loading' = loading
            /\ textReqs' = Superseded(textReqs, newMode, FALSE)
            /\ text' = IF newMode = LESSON THEN DEFAULT_TEXT ELSE text
    /\ UNCHANGED <<lastGameScore, adviceReqs>>

\* the "Surprise Me" button: shown in LESSON mode, disabled while loading
handleLessonGenerate ==
    /\ mode = LESSON
    /\ ~loading
    /\ loading' = TRUE
    /\ textReqs' = Append(Superseded(textReqs, LESSON, TRUE),
                          [kind |-> LESSON, focusKeys |-> LessonWeakKeys(keyStats),
                           stale |-> FALSE])
    /\ UNCHANGED <<mode, text, userInput, startTime, isFinished, keyStats,
                   aiAdvice, lastGameScore, adviceReqs>>

\* the continuation after `await generateLessonContent(...)`, of
\* handleModeChange (setText, setLoading) or handleLessonGenerate
\* (setText, resetSession, setLoading)
TextResponse(i, outcome) ==
    /\ i \in DOMAIN textReqs
    /\ text' = generateLessonContent(outcome)
    /\ IF textReqs[i].kind = LESSON
       THEN resetSession
       ELSE UNCHANGED <<userInput, startTime, isFinished, aiAdvice, keyStats>>
    /\ loading' = FALSE
    /\ textReqs' = RemoveAt(textReqs, i)
    /\ UNCHANGED <<mode, lastGameScore, adviceReqs>>

\* the first return of handleKeyDown, without the isFinished test
KeyIgnoredUnlessFinished == mode = GAME_RAIN \/ loading

\* the first return of handleKeyDown
KeyIgnored == mode = GAME_RAIN \/ isFinished \/ loading

\* a start timestamp overwritten by every keystroke
StartTimeAlwaysNow(now) == now

\* if (!startTime) setStartTime(Date.now())
StartTimeAfterKey(now) == IF startTime = NoStartTime THEN now ELSE startTime

\* a completion test that fires one character early
SessionCompleteOneEarly(next) == Len(next) + 1 = Len(text)

\* next.length === text.length
SessionComplete(next) == Len(next) = Len(text)

\* finishSession, called from the setUserInput updater of the handler created
\* by the last render: startTime, keyStats and text are that render's values,
\* the ones before this keystroke's updates
finishSession(finalInput, now) ==
    LET errors == CountErrors(finalInput, text)
        chars == Len(finalInput)
        durationMs == now - (IF startTime = NoStartTime THEN now ELSE startTime)
    IN  /\ isFinished' = TRUE
        /\ adviceReqs' = Append(adviceReqs,
               [wpm |-> FinalWpm(chars, durationMs),
                accuracy |-> RoundDiv((chars - errors) * 100, chars),
                weakKeys |-> AdviceWeakKeys(keyStats)])

handleKeyDown(key, now) ==
    IF KeyIgnored \/ ~(key \in PrintableKeys \/ key = Backspace)
    THEN UNCHANGED appVars
    ELSE /\ startTime' = StartTimeAfterKey(now)
         /\ IF key = Backspace
            THEN /\ userInput' = DropLast(userInput)
                 /\ UNCHANGED <<keyStats, isFinished, adviceReqs>>
            ELSE LET expectedChar == ExpectedChar(text, userInput)
                     isCorrect == key = expectedChar
                     next == Append(userInput, key)
                 IN  /\ keyStats' = recordAttempt(keyStats, expectedChar, isCorrect)
                     /\ userInput' = next
                     /\ IF SessionComplete(next)
                        THEN finishSession(next, now)
                        ELSE UNCHANGED <<isFinished, adviceReqs>>
         /\ UNCHANGED <<mode, text, loading, aiAdvice, lastGameScore, textReqs>>

\* the continuation after `await generateTypingAdvice(...)` in finishSession
AdviceResponse(i, outcome) ==
    /\ i \in DOMAIN adviceReqs
    /\ aiAdvice' = generateTypingAdvice(outcome)
    /\ adviceReqs' = RemoveAt(adviceReqs, i)
    /\ UNCHANGED <<mode, text, userInput, startTime, isFinished, keyStats,
                   loading, lastGameScore, textReqs>>

\* the "Next Lesson" button of the results panel
NextLesson ==
    /\ mode # GAME_RAIN
    /\ isFinished
    /\ IF mode = ZEN
       THEN handleModeChange(ZEN)
       ELSE /\ resetSession
            /\ UNCHANGED <<mode, text, loading, lastGameScore, textReqs,
                           adviceReqs>>

\* RainGame is mounted in GAME_RAIN mode while not finished; its onGameEnd prop
onGameEnd(finalScore) ==
    /\ mode = GAME_RAIN
    /\ ~isFinished
    /\ lastGameScore' = finalScore
    /\ isFinished' = TRUE
    /\ UNCHANGED <<mode, text, userInput, startTime, keyStats, loading, aiAdvice,
                   textReqs, adviceReqs>>

\* the "Play Again" button of the game-over panel
PlayAgain ==
    /\ mode = GAME_RAIN
    /\ isFinished
    /\ isFinished' = FALSE
    /\ lastGameScore' = 0
    /\ UNCHANGED <<mode, text, userInput, startTime, keyStats, loading, aiAdvice,
                   textReqs, adviceReqs>>

----------------------------------------------------------------------------
(* RainGame: constants and inputs.  Vertical positions and speeds are        *)
(* counted in units of 0.05 (the speed added per level), so y = -10 is -200, *)
(* the bottom boundary 100 is 2000 and the speed 0.2 + level * 0.05 is       *)
(* 4 + level; the rounding of the floating-point sums is not modelled.       *)

INITIAL_LIVES == 3
INITIAL_LEVEL == 1
INITIAL_SPAWN_RATE == 2000
MIN_SPAWN_RATE == 800
SPAWN_RATE_STEP == 10
SPAWN_Y == -200
BOTTOM_Y == 2000
BASE_SPEED == 4
POINTS_PER_CHAR == 10
LEVEL_SCORE_STEP == 100

\* newWords[0] || "code"
DEFAULT_WORD == <<"c", "o", "d", "e">>

\* the list generateGameWords returns when the call fails
FALLBACK_WORDS ==
    << <<"s", "p", "a", "c", "e">>, <<"g", "a", "l", "a", "x", "y">>,
       <<"r", "o", "c", "k", "e", "t">>, <<"p", "l", "a", "n", "e", "t">>,
       <<"s", "t", "a", "r">>, <<"c", "o", "m", "e", "t">>,
       <<"o", "r", "b", "i", "t">>, <<"l", "a", "s", "e", "r">>,
       <<"a", "l", "i", "e", "n">>, <<"m", "o", "o", "n">> >>

MaxFrames == 5       \* animation-frame timestamps: 0, FrameGap, .., MaxFrames * FrameGap
FrameGap == 2001     \* milliseconds between two timestamps of the model
MaxWords == 1        \* words active or requested when a spawn is let through
MaxFallTicks == 1    \* ticks a newly spawned word is followed for
MaxSpawns == 130     \* spawns followed under SpawnSpec
MaxIdWords == 2      \* words active or requested under IdSpec

\* the `time` argument requestAnimationFrame hands to updateGame
FrameTimes == {k * FrameGap : k \in 0 .. MaxFrames}
SpawnFrameTimes == {k * FrameGap : k \in 0 .. MaxSpawns}

\* the keys pressed during the game
GameKeys == {"r", "o", "c", "k", "e", "t", Backspace, "Shift"}

\* What the provider may answer to generateGameWords: a failed call, or a
\* response whose text is undefined/empty, one word, or several padded words.
WordOutcomes == {[ok |-> FALSE, text |-> <<>>]} \cup
                {[ok |-> TRUE, text |-> t] :
                    t \in {<<>>, <<"r", "o", "c", "k", "e", "t">>,
                           <<" ", "r", "o", " ", "c">>}}

----------------------------------------------------------------------------
(* RainGame: helpers *)

\* text.split(/\s+/).filter(w => w.length > 0); cur is the word being read
RECURSIVE SplitWords(_, _)
SplitWords(s, cur) ==
    IF s = <<>> THEN (IF cur = <<>> THEN <<>> ELSE <<cur>>)
    ELSE IF IsSpace(Head(s))
         THEN (IF cur = <<>> THEN <<>> ELSE <<cur>>) \o SplitWords(Tail(s), <<>>)
         ELSE SplitWords(Tail(s), Append(cur, Head(s)))

\* generateGameWords: the words of the response cut to `count`, the whole
\* fallback list on a throw
generateGameWords(outcome, count) ==
    IF outcome.ok THEN Take(SplitWords(outcome.text, <<>>), count)
    ELSE FALLBACK_WORDS

\* String.prototype.startsWith
StartsWith(t, prefix) ==
    Len(prefix) <= Len(t) /\ SubSeq(t, 1, Len(prefix)) = prefix

\* prevWords.findIndex(w => w.text.startsWith(prefix)), 0 for -1
FindIndex(ws, prefix) ==
    IF \E i \in DOMAIN ws : StartsWith(ws[i].text, prefix)
    THEN CHOOSE i \in DOMAIN ws :
            /\ StartsWith(ws[i].text, prefix)
            /\ \A j \in 1 .. i - 1 : ~StartsWith(ws[j].text, prefix)
    ELSE 0

\* speed: 0.2 + (level * 0.05)
Speed(lv) == BASE_SPEED + lv

\* The callback useCallback returns for one value of its dependencies: what
\* it reads of lives, level and score are the values of the render that made it.
UpdateGameCallback(l, lv, sc) == [lives |-> l, level |-> lv, score |-> sc]

\* requestRef.current = requestAnimationFrame(cb): the frame requested last is
\* the one requestRef.current names
RequestFrame(fr, cb) ==
    Append([i \in DOMAIN fr |-> [fr[i] EXCEPT !.current = FALSE]],
           [cb |-> cb, current |-> TRUE])

\* a cancellation that cancels nothing
KeepFrame(fr) == fr

\* cancelAnimationFrame(requestRef.current): nothing when that frame has run
CancelFrame(fr) ==
    LET NotCurrent(f) == ~f.current
    IN  SelectSeq(fr, NotCurrent)

\* an effect on [updateGame] without its cleanup
FrameEffectNoCleanup(fr, oldCb, newCb) ==
    IF newCb = oldCb THEN fr ELSE RequestFrame(fr, newCb)

\* the effect on [updateGame]: when the callback is a new one, the cleanup of
\* the old effect runs, then the effect
FrameEffect(fr, oldCb, newCb) ==
    IF newCb = oldCb THEN fr ELSE RequestFrame(CancelFrame(fr), newCb)

\* App renders <RainGame> in GAME_RAIN mode while the game is not over
RainGameMounted == mode = GAME_RAIN /\ ~isFinished

\* RainGame before it is first mounted
GameIdle ==
    /\ words = <<>>
    /\ currentInput = <<>>
    /\ score = 0
    /\ lives = INITIAL_LIVES
    /\ level = INITIAL_LEVEL
    /\ lastSpawnTime = 0
    /\ spawnRate = INITIAL_SPAWN_RATE
    /\ wordReqs = <<>>
    /\ frames = <<>>

----------------------------------------------------------------------------
(* RainGame: handlers *)

\* a new RainGame is mounted: fresh state and refs, the effect requests a frame
RainGameMount ==
    /\ words' = <<>>
    /\ currentInput' = <<>>
    /\ score' = 0
    /\ lives' = INITIAL_LIVES
    /\ level' = INITIAL_LEVEL
    /\ lastSpawnTime' = 0
    /\ spawnRate' = INITIAL_SPAWN_RATE
    /\ wordReqs' = <<>>
    /\ frames' = RequestFrame(frames,
                     UpdateGameCallback(INITIAL_LIVES, INITIAL_LEVEL, 0))

\* RainGame is unmounted: the cleanup of the effect cancels the frame; what its
\* outstanding spawnWord calls set later is set on no component, so they are
\* forgotten; the last state is kept for the properties
RainGameUnmount ==
    /\ frames' = CancelFrame(frames)
    /\ wordReqs' = <<>>
    /\ UNCHANGED <<words, currentInput, score, lives, level, lastSpawnTime,
                   spawnRate>>

\* what a render of App does to RainGame: mount, unmount, or a new onGameEnd
\* prop, which makes a new updateGame
RainGameRender ==
    LET mountedAfter == mode' = GAME_RAIN /\ ~isFinished'
        cb == UpdateGameCallback(lives, level, score)
    IN  IF mountedAfter /\ ~RainGameMounted THEN RainGameMount
        ELSE IF ~mountedAfter /\ RainGameMounted THEN RainGameUnmount
        ELSE IF mountedAfter
             THEN /\ frames' = RequestFrame(CancelFrame(frames), cb)
                  /\ UNCHANGED <<words, currentInput, score, lives, level,
                                 lastSpawnTime, spawnRate, wordReqs>>
        ELSE UNCHANGED gameVars

\* a bottom test that also removes a word exactly on the boundary
PastBottomInclusive(y) == y >= BOTTOM_Y

\* nextY > 100
PastBottom(y) == y > BOTTOM_Y

\* l - livesLost
LivesAfterLoss(l, livesLost) == l - livesLost

\* a spawn interval that keeps decreasing
SpawnRateAfterSpawnNoFloor(rate) == rate - SPAWN_RATE_STEP

\* if (spawnRate.current > 800) spawnRate.current -= 10
SpawnRateAfterSpawn(rate) ==
    IF rate > MIN_SPAWN_RATE THEN rate - SPAWN_RATE_STEP ELSE rate

\* the argument of onGameEnd were it always zero
ReportedScoreZero(cb) == 0

\* onGameEnd(score): the score of the render that made the callback
ReportedScore(cb) == cb.score

\* updateGame, run as frame i with timestamp `time`, and the render after it
updateGame(i, time) ==
    LET cb == frames[i].cb
        rest == RemoveAt(frames, i)
        spawnDue == time - lastSpawnTime > spawnRate
        advanced == [k \in DOMAIN words |->
                        [words[k] EXCEPT !.y = @ + words[k].speed]]
        Kept(w) == ~PastBottom(w.y)
        nextWords == SelectSeq(advanced, Kept)
        livesLost == Len(words) - Len(nextWords)
        newLives == LivesAfterLoss(lives, livesLost)
        gameOver == livesLost > 0 /\ newLives <= 0
        rearmed == RequestFrame(rest, cb)
    IN  /\ i \in DOMAIN frames
        /\ IF cb.lives <= 0
           THEN /\ frames' = rest
                /\ UNCHANGED <<appVars, words, currentInput, score, lives, level,
                               lastSpawnTime, spawnRate, wordReqs>>
           ELSE IF ~RainGameMounted
           THEN \* a frame of a component no longer mounted: its setWords sets nothing
                /\ frames' = rearmed
                /\ UNCHANGED <<appVars, words, currentInput, score, lives, level,
                               lastSpawnTime, spawnRate, wordReqs>>
           ELSE /\ lastSpawnTime' = IF spawnDue THEN time ELSE lastSpawnTime
                /\ spawnRate' = IF spawnDue THEN SpawnRateAfterSpawn(spawnRate)
                                ELSE spawnRate
                /\ words' = nextWords
                /\ lives' = IF livesLost > 0 THEN newLives ELSE lives
                /\ IF gameOver
                   THEN onGameEnd(ReportedScore(cb))
                   ELSE UNCHANGED appVars
                /\ wordReqs' = IF gameOver THEN <<>>
                               ELSE IF spawnDue
                                    THEN Append(wordReqs, [level |-> cb.level])
                                    ELSE wordReqs
                /\ frames' = IF gameOver THEN CancelFrame(rearmed)
                             ELSE FrameEffect(rearmed, cb,
                                      UpdateGameCallback(lives', level, score))
                /\ UNCHANGED <<currentInput, score, level>>

\* the continuation of spawnWord after `await generateGameWords(1)`
spawnWordResponse(i, outcome, now) ==
    LET newWords == generateGameWords(outcome, 1)
        wordText == IF newWords # <<>> THEN newWords[1] ELSE DEFAULT_WORD
    IN  /\ i \in DOMAIN wordReqs
        /\ words' = Append(words, [id |-> now, text |-> wordText, y |-> SPAWN_Y,
                                   speed |-> Speed(wordReqs[i].level)])
        /\ wordReqs' = RemoveAt(wordReqs, i)
        /\ UNCHANGED <<appVars, currentInput, score, lives, level, lastSpawnTime,
                       spawnRate, frames>>

\* a completion that removes every word with the typed text
WordsAfterCompletionAll(ws, targetIndex) ==
    LET Other(w) == w.text # ws[targetIndex].text
    IN  SelectSeq(ws, Other)

\* prevWords.filter((_, i) => i !== targetIndex)
WordsAfterCompletion(ws, targetIndex) == RemoveAt(ws, targetIndex)

\* if (score > 0 && score % 100 === 0) setLevel(l => l + 1): score is the
\* score before this completion
LevelAfterCompletion(lv, sc, gained) ==
    IF sc > 0 /\ sc % LEVEL_SCORE_STEP = 0 THEN lv + 1 ELSE lv

\* handleKeyDown of RainGame and the render after it; the listener is
\* re-subscribed whenever lives, currentInput or score change, so it reads
\* their current values.  App's own listener returns at its first test.
RainGame_handleKeyDown(key) ==
    LET newTyped == Append(currentInput, key)
        targetIndex == FindIndex(words, newTyped)
        gained == Len(newTyped) * POINTS_PER_CHAR
    IN  /\ RainGameMounted
        /\ UNCHANGED <<appVars, lives, lastSpawnTime, spawnRate, wordReqs>>
        /\ IF lives <= 0 \/ (key \notin PrintableKeys /\ key # Backspace)
           THEN UNCHANGED <<words, currentInput, score, level, frames>>
           ELSE IF key = Backspace
           THEN /\ currentInput' = DropLast(currentInput)
                /\ UNCHANGED <<words, score, level, frames>>
           ELSE IF targetIndex # 0 /\ newTyped = words[targetIndex].text
           THEN /\ score' = score + gained
                /\ currentInput' = <<>>
                /\ level' = LevelAfterCompletion(level, score, gained)
                /\ words' = WordsAfterCompletion(words, targetIndex)
                /\ frames' = FrameEffect(frames,
                                 UpdateGameCallback(lives, level, score),
                                 UpdateGameCallback(lives, level', score'))
           ELSE /\ currentInput' = IF targetIndex # 0 THEN newTyped ELSE <<>>
                /\ UNCHANGED <<words, score, level, frames>>

----------------------------------------------------------------------------
(* Specification *)

Init ==
    /\ GameIdle
    /\ mode = LESSON
    /\ text = DEFAULT_TEXT
    /\ userInput = <<>>
    /\ startTime = NoStartTime
    /\ isFinished = FALSE
    /\ keyStats = <<>>
    /\ loading = FALSE
    /\ aiAdvice = <<>>
    /\ lastGameScore = 0
    /\ textReqs = <<>>
    /\ adviceReqs = <<>>

Pending == Len(textReqs) + Len(adviceReqs)

\* the keystrokes the bounds of the model leave room for
KeyWithinBounds(key) ==
    (key \in PrintableKeys /\ ~KeyIgnored) =>
        /\ Len(userInput) < MaxInputLen
        /\ ExpectedChar(text, userInput) # Undefined => Attempts(keyStats) < MaxAttempts
        /\ SessionComplete(Append(userInput, key)) => Pending < MaxPending

\* a keystroke; the clock read by the handler is not before the start timestamp
KeyDown ==
    \E key \in Keys, now \in Instants :
        /\ now >= startTime
        /\ KeyWithinBounds(key)
        /\ handleKeyDown(key, now)
        /\ UNCHANGED gameVars

ModeChange ==
    \E newMode \in {LESSON, ZEN, GAME_RAIN} :
        /\ newMode = ZEN => Pending < MaxPending
        /\ handleModeChange(newMode)
        /\ UNCHANGED gameVars

LessonGenerate ==
    Pending < MaxPending /\ handleLessonGenerate /\ UNCHANGED gameVars

TextArrives ==
    \E i \in DOMAIN textReqs, outcome \in Outcomes :
        TextResponse(i, outcome) /\ UNCHANGED gameVars

AdviceArrives ==
    \E i \in DOMAIN adviceReqs, outcome \in AdviceOutcomes :
        AdviceResponse(i, outcome) /\ UNCHANGED gameVars

NextLessonClick ==
    (mode = ZEN => Pending < MaxPending) /\ NextLesson /\ UNCHANGED gameVars

\* the game reports its end; what happens inside RainGame is left to GameSpec
GameEnds == \E sc \in GameScores : onGameEnd(sc) /\ UNCHANGED gameVars

PlayAgainClick == PlayAgain /\ UNCHANGED gameVars

Next ==
    \/ KeyDown
    \/ ModeChange
    \/ LessonGenerate
    \/ TextArrives
    \/ AdviceArrives
    \/ NextLessonClick
    \/ GameEnds
    \/ PlayAgainClick

Spec == Init /\ [][Next]_vars

----------------------------------------------------------------------------
(* A second specification, for the derived stats: the session starts on any   *)
(* of a few reference texts (as after a generated lesson has arrived) and the *)
(* user types.                                                               *)

StatsTexts == {<<"c", "a", "t">>, <<"a">>, DEFAULT_TEXT}
StatsKeys == {"c", "a", "p", "t", Backspace}

StatsInit ==
    /\ GameIdle
    /\ mode = LESSON
    /\ text \in StatsTexts
    /\ userInput = <<>>
    /\ startTime = NoStartTime
    /\ isFinished = FALSE
    /\ keyStats = <<>>
    /\ loading = FALSE
    /\ aiAdvice = <<>>
    /\ lastGameScore = 0
    /\ textReqs = <<>>
    /\ adviceReqs = <<>>

StatsKeyDown ==
    \E key \in StatsKeys, now \in Instants :
        /\ now >= startTime
        /\ Attempts(keyStats) < MaxStatsAttempts
        /\ handleKeyDown(key, now)
        /\ UNCHANGED gameVars

StatsNext == StatsKeyDown

StatsSpec == StatsInit /\ [][StatsNext]_vars

----------------------------------------------------------------------------
(* A third specification, for the falling-word game: RainGame is mounted     *)
(* (the user chose the game from the menu) and either has just been mounted  *)
(* or is in one of a few states of a game under way, each of which the       *)
(* program reaches from the mounted state.                                   *)

ROCKET == <<"r", "o", "c", "k", "e", "t">>
RO == <<"r", "o">>

\* Four words spawned FrameGap apart and answered late, at four instants before
\* the first of Instants: two between one pair of ticks and two between the
\* next, now one and two ticks above the bottom.
WordsNearBottom ==
    << [id |-> -3, text |-> RO, y |-> BOTTOM_Y - Speed(INITIAL_LEVEL),
        speed |-> Speed(INITIAL_LEVEL)],
       [id |-> -2, text |-> DEFAULT_WORD, y |-> BOTTOM_Y - Speed(INITIAL_LEVEL),
        speed |-> Speed(INITIAL_LEVEL)],
       [id |-> -1, text |-> ROCKET, y |-> BOTTOM_Y - 2 * Speed(INITIAL_LEVEL),
        speed |-> Speed(INITIAL_LEVEL)],
       [id |-> 0, text |-> RO, y |-> BOTTOM_Y - 2 * Speed(INITIAL_LEVEL),
        speed |-> Speed(INITIAL_LEVEL)] >>

GameStarts ==
    { [words |-> <<>>, lastSpawnTime |-> 0, spawnRate |-> INITIAL_SPAWN_RATE],
      [words |-> WordsNearBottom, lastSpawnTime |-> 4 * FrameGap,
       spawnRate |-> INITIAL_SPAWN_RATE - 4 * SPAWN_RATE_STEP] }

AppInGame ==
    /\ mode = GAME_RAIN
    /\ text = DEFAULT_TEXT
    /\ userInput = <<>>
    /\ startTime = NoStartTime
    /\ isFinished = FALSE
    /\ keyStats = <<>>
    /\ loading = FALSE
    /\ aiAdvice = <<>>
    /\ lastGameScore = 0
    /\ textReqs = <<>>
    /\ adviceReqs = <<>>

GameInit ==
    /\ AppInGame
    /\ \E start \in GameStarts :
          /\ words = start.words
          /\ lastSpawnTime = start.lastSpawnTime
          /\ spawnRate = start.spawnRate
    /\ currentInput = <<>>
    /\ score = 0
    /\ lives = INITIAL_LIVES
    /\ level = INITIAL_LEVEL
    /\ wordReqs = <<>>
    /\ frames = RequestFrame(<<>>, UpdateGameCallback(INITIAL_LIVES, INITIAL_LEVEL, 0))

\* the ticks the bounds of the model leave room for: a frame comes no later
\* than FrameGap after the last spawn
TickWithinBounds(time) ==
    /\ time >= lastSpawnTime
    /\ time <= lastSpawnTime + FrameGap
    /\ (time - lastSpawnTime > spawnRate) => Len(words) + Len(wordReqs) < MaxWords
    /\ \A k \in DOMAIN words :
          \/ words[k].y >= BOTTOM_Y - 2 * words[k].speed
          \/ words[k].y < SPAWN_Y + MaxFallTicks * words[k].speed

GameTick ==
    \E i \in DOMAIN frames, time \in FrameTimes :
        TickWithinBounds(time) /\ updateGame(i, time)

\* Date.now() does not run backwards
WordArrives ==
    \E i \in DOMAIN wordReqs, outcome \in WordOutcomes, now \in Instants :
        /\ \A k \in DOMAIN words : words[k].id <= now
        /\ spawnWordResponse(i, outcome, now)

GameKeyDown == \E key \in GameKeys : RainGame_handleKeyDown(key)

GamePlayAgain == PlayAgain /\ RainGameRender

\* the menu: leave the game for the lessons, or choose the game (again)
GameModeChange ==
    \E newMode \in {LESSON, GAME_RAIN} : handleModeChange(newMode) /\ RainGameRender

GameNext ==
    \/ GameTick
    \/ WordArrives
    \/ GameKeyDown
    \/ GamePlayAgain
    \/ GameModeChange

GameSpec == GameInit /\ [][GameNext]_vars

----------------------------------------------------------------------------
(* A fourth specification, for the spawn interval: RainGame has just been    *)
(* mounted and the animation ticks run while no provider response arrives.   *)

SpawnInit ==
    /\ AppInGame
    /\ words = <<>>
    /\ currentInput = <<>>
    /\ score = 0
    /\ lives = INITIAL_LIVES
    /\ level = INITIAL_LEVEL
    /\ lastSpawnTime = 0
    /\ spawnRate = INITIAL_SPAWN_RATE
    /\ wordReqs = <<>>
    /\ frames = RequestFrame(<<>>, UpdateGameCallback(INITIAL_LIVES, INITIAL_LEVEL, 0))

SpawnTick ==
    \E i \in DOMAIN frames, time \in SpawnFrameTimes :
        /\ time >= lastSpawnTime
        /\ (time - lastSpawnTime > spawnRate) => Len(wordReqs) < MaxSpawns
        /\ updateGame(i, time)

SpawnNext == SpawnTick

SpawnSpec == SpawnInit /\ [][SpawnNext]_vars

----------------------------------------------------------------------------
(* A fifth specification, for the ids of the words: RainGame has just been   *)
(* mounted, the animation ticks run and the provider answers, with room for  *)
(* several spawn requests at a time; no key is pressed.                      *)

IdTick ==
    \E i \in DOMAIN frames, time \in FrameTimes :
        /\ time >= lastSpawnTime
        /\ time <= lastSpawnTime + FrameGap
        /\ (time - lastSpawnTime > spawnRate) =>
               Len(words) + Len(wordReqs) < MaxIdWords
        /\ \A k \in DOMAIN words :
               words[k].y < SPAWN_Y + MaxFallTicks * words[k].speed
        /\ updateGame(i, time)

IdNext ==
    \/ IdTick
    \/ WordArrives

IdSpec == SpawnInit /\ [][IdNext]_vars

----------------------------------------------------------------------------
(* Steps, named for the properties *)

TypingMode == mode # GAME_RAIN

\* some keystroke is handled
KeyStep == \E key \in Keys \cup StatsKeys, now \in Instants : handleKeyDown(key, now)

ModeSwitchStep == \E newMode \in {LESSON, ZEN, GAME_RAIN} : handleModeChange(newMode)

\* the response to a lesson request of handleLessonGenerate arrives
LessonArrivesStep ==
    \E i \in DOMAIN textReqs, outcome \in Outcomes :
        textReqs[i].kind = LESSON /\ TextResponse(i, outcome)

\* the steps that run resetSession
ResetStep == NextLesson \/ ModeSwitchStep \/ LessonArrivesStep

\* finishSession issued a request for advice
AdviceRequested == Len(adviceReqs') > Len(adviceReqs)

EntersFinished == TypingMode /\ ~isFinished /\ isFinished'

\* an animation frame of the mounted game runs updateGame past its first test
RunningTick ==
    /\ RainGameMounted
    /\ \E i \in DOMAIN frames, time \in FrameTimes :
          frames[i].cb.lives > 0 /\ updateGame(i, time)

\* App calls the onGameEnd it handed to RainGame
GameEndReported == mode = GAME_RAIN /\ ~isFinished /\ isFinished'

\* RainGame stays mounted over the step
StaysMounted == RainGameMounted /\ mode' = GAME_RAIN /\ ~isFinished'

----------------------------------------------------------------------------
(* C1: in every reachable state the typed input is no longer than the        *)
(* reference text.                                                           *)
C1_TypedWithinText == Len(userInput) <= Len(text)

(* C2: a typing session enters Finished only at the keystroke whose appended *)
(* character makes the typed input as long as the reference text, and always *)
(* at such a keystroke; finishSession issues exactly one advice request then *)
(* and none at any other step; Finished is left only by a reset, so no       *)
(* session finishes twice.                                                   *)
C2_FinishedOncePerSession ==
    [][ /\ EntersFinished =>
              /\ \E key \in PrintableKeys : userInput' = Append(userInput, key)
              /\ Len(userInput') = Len(text)
              /\ text' = text
              /\ Len(adviceReqs') = Len(adviceReqs) + 1
        /\ AdviceRequested => EntersFinished
        /\ ( /\ TypingMode /\ ~isFinished
             /\ \E key \in PrintableKeys : userInput' = Append(userInput, key)
             /\ Len(userInput') = Len(text) ) => isFinished'
        /\ (TypingMode /\ isFinished /\ ~isFinished') =>
              (userInput' = <<>> /\ startTime' = NoStartTime)
      ]_vars

C2_Witness ==
    /\ TypingMode /\ isFinished
    /\ Len(userInput) = Len(text)
    /\ Len(adviceReqs) = 1

(* C3: whenever a typing session is not Finished the advice text is empty.   *)
C3_AdviceEmptyUnlessFinished == (TypingMode /\ ~isFinished) => aiAdvice = <<>>

(* C4: a practice-text response whose request has been superseded (the user  *)
(* switched to another mode, or a newer text request was issued) leaves the  *)
(* reference text and the loading flag unchanged.                            *)
C4_StaleResponseIgnored ==
    [][ \A i \in DOMAIN textReqs :
          (textReqs[i].stale /\ \E outcome \in Outcomes : TextResponse(i, outcome))
              => (text' = text /\ loading' = loading) ]_vars

(* C5, as claimed: after a reset (explicit reset, mode switch or newly       *)
(* generated lesson) the key-stat map is empty.                              *)
C5_ResetEmptiesKeyStats == [][ResetStep => keyStats' = <<>>]_vars

(* C5, amended: a reset (explicit reset, mode switch or newly generated      *)
(* lesson) leaves the key-stat map as it was, so the counts of earlier       *)
(* sessions stay visible in the new one.                                     *)
C5_ResetKeepsKeyStats == [][ResetStep => keyStats' = keyStats]_vars

C5_Witness ==
    /\ keyStats # <<>>
    /\ userInput = <<>> /\ startTime = NoStartTime /\ ~isFinished

(* C6: every tracked character has 0 <= errors <= total and total >= 1, it   *)
(* is tracked once, and no weak-key list derived from the map names a        *)
(* character with total = 0.                                                 *)
C6_KeyStatsWellFormed ==
    /\ \A i \in DOMAIN keyStats :
          /\ 0 <= keyStats[i].errors
          /\ keyStats[i].errors <= keyStats[i].total
          /\ keyStats[i].total >= 1
    /\ \A i, j \in DOMAIN keyStats : keyStats[i].char = keyStats[j].char => i = j
    /\ LET Tracked(c) == \E i \in DOMAIN keyStats :
                            keyStats[i].char = c /\ keyStats[i].total >= 1
           display == weakKeysDisplay(keyStats)
           advice == AdviceWeakKeys(keyStats)
           lesson == LessonWeakKeys(keyStats)
       IN  /\ \A n \in DOMAIN display : Tracked(display[n].char) /\ display[n].total # 0
           /\ \A n \in DOMAIN advice : Tracked(advice[n])
           /\ \A n \in DOMAIN lesson : Tracked(lesson[n])

C6_Witness ==
    /\ \E i \in DOMAIN keyStats : keyStats[i].errors = 0
    /\ \E i \in DOMAIN keyStats : keyStats[i].errors >= 1
    /\ weakKeysDisplay(keyStats) # <<>>

(* C7: for a typed input no longer than the reference text, charsTyped is    *)
(* its length, mistakes is the number of positions where it differs from the *)
(* reference text, accuracy is 100 for an empty input and otherwise          *)
(* (charsTyped - mistakes) / charsTyped * 100 rounded to the nearest integer *)
(* (halves up); so mistakes <= charsTyped, accuracy is within 0..100, an     *)
(* empty input gives accuracy 100, wpm 0, mistakes 0, and "cap" typed on     *)
(* "cat" gives mistakes 1, accuracy 67.                                      *)
C7_StatsCorrect ==
    \A at \in Instants :
        (at >= startTime /\ Len(userInput) <= Len(text)) =>
            LET st == currentStats(userInput, text, startTime, at)
                c == Len(userInput)
                m == Cardinality({i \in 1 .. c : userInput[i] # text[i]})
            IN  /\ st.charsTyped = c
                /\ st.mistakes = m
                /\ st.mistakes <= st.charsTyped
                /\ st.accuracy \in 0 .. 100
                /\ c = 0 => (st.accuracy = 100 /\ st.wpm = 0 /\ st.mistakes = 0)
                /\ c > 0 => /\ (2 * st.accuracy - 1) * c <= 200 * (c - m)
                            /\ 200 * (c - m) < (2 * st.accuracy + 1) * c
                /\ (text = <<"c", "a", "t">> /\ userInput = <<"c", "a", "p">>) =>
                       (st.mistakes = 1 /\ st.accuracy = 67)

C7_Witness ==
    /\ text = <<"c", "a", "t">>
    /\ userInput = <<"c", "a", "p">>
    /\ currentStats(userInput, text, startTime, MaxTime).accuracy = 67

(* C8: the wpm finishSession hands to the advice provider is a finite        *)
(* number for every session, never the result of a division by zero.        *)
C8_FinalWpmFinite == \A i \in DOMAIN adviceReqs : adviceReqs[i].wpm.finite

(* C9: the start timestamp is set by an accepted keystroke (a printable      *)
(* character or Backspace) to the clock value that keystroke read, and once  *)
(* set it keeps its value through every step until a reset clears it.        *)
C9_StartTimeSetOnce ==
    [][ /\ (startTime = NoStartTime /\ startTime' # NoStartTime) =>
              \E key \in PrintableKeys \cup {Backspace}, now \in Instants :
                  ~KeyIgnored /\ handleKeyDown(key, now) /\ startTime' = now
        /\ startTime # NoStartTime =>
              \/ startTime' = startTime
              \/ startTime' = NoStartTime /\ ResetStep
      ]_vars

C9_Witness ==
    /\ startTime # NoStartTime
    /\ Len(userInput) >= 2
    /\ startTime < MaxTime

(* C10, as claimed: while a typing session is Finished a keystroke changes   *)
(* none of typed input, start timestamp, key stats and finished flag, and    *)
(* the session leaves Finished only through the explicit reset (Next Lesson) *)
(* or a mode switch.                                                         *)
C10_FinishedLeftByResetOrModeSwitch ==
    [][ /\ (isFinished /\ KeyStep) =>
              UNCHANGED <<userInput, startTime, keyStats, isFinished>>
        /\ (TypingMode /\ isFinished /\ ~isFinished') =>
              (NextLesson \/ ModeSwitchStep)
      ]_vars

(* C10, amended: while a typing session is Finished a keystroke changes none *)
(* of typed input, start timestamp, key stats and finished flag, and the     *)
(* session leaves Finished only through the explicit reset (Next Lesson), a  *)
(* mode switch, or the arrival of a lesson requested with "Surprise Me".     *)
C10_FinishedIsTerminal ==
    [][ /\ (isFinished /\ KeyStep) =>
              UNCHANGED <<userInput, startTime, keyStats, isFinished>>
        /\ (TypingMode /\ isFinished /\ ~isFinished') =>
              (NextLesson \/ ModeSwitchStep \/ LessonArrivesStep)
      ]_vars

C10_Witness ==
    /\ TypingMode /\ isFinished
    /\ userInput # <<>> /\ startTime # NoStartTime /\ keyStats # <<>>

(* C11: on every tick of the falling-word game each active word whose       *)
(* advanced position exceeds 100 is removed, every other word is kept, in    *)
(* order, with its position advanced by its speed, and lives decrease by     *)
(* exactly the number of words removed (by nothing when none was removed).   *)
C11_TickRemovesPastBottom ==
    [][ RunningTick =>
          LET removed == {k \in DOMAIN words : words[k].y + words[k].speed > BOTTOM_Y}
              Before(k) == Cardinality({j \in removed : j < k})
          IN  /\ Len(words') = Len(words) - Cardinality(removed)
              /\ \A k \in DOMAIN words \ removed :
                    words'[k - Before(k)] =
                        [words[k] EXCEPT !.y = words[k].y + words[k].speed]
              /\ lives' = lives - Cardinality(removed)
      ]_vars

C11_Witness ==
    /\ RainGameMounted
    /\ lives = INITIAL_LIVES - 2
    /\ Len(words) = 2
    /\ \A k \in DOMAIN words : words[k].y = BOTTOM_Y

(* C12: onGameEnd is called in the tick in which lives go from above zero    *)
(* to zero or below, in every such tick, and at no other step; its argument  *)
(* is the score accumulated before that tick; the game is unmounted by the   *)
(* call, so it is not called a second time in that run.                      *)
C12_GameEndReportedOnce ==
    [][ /\ GameEndReported =>
              (RunningTick /\ lives > 0 /\ lives' <= 0 /\ lastGameScore' = score)
        /\ (RainGameMounted /\ lives > 0 /\ lives' <= 0) => GameEndReported
        /\ RainGameMounted => lives > 0
        /\ (lives <= 0 /\ lives' <= 0) => ~GameEndReported
      ]_vars

C12_Witness ==
    /\ mode = GAME_RAIN /\ isFinished
    /\ lives <= 0
    /\ score > 0
    /\ lastGameScore = score

(* C13: when a printable keystroke makes (current input + key) equal the     *)
(* text of the first active word that starts with it, that word and only     *)
(* that word is removed, the score increases by length(word) * 10 and the    *)
(* current input becomes empty; "rocket" typed letter by letter adds 60.     *)
C13_CompletedWordScores ==
    [][ \A key \in GameKeys \cap PrintableKeys :
          LET typed == currentInput \o <<key>>
              matching == {k \in DOMAIN words :
                             /\ Len(typed) <= Len(words[k].text)
                             /\ \A n \in 1 .. Len(typed) : words[k].text[n] = typed[n]}
              first == CHOOSE k \in matching : \A j \in matching : k <= j
          IN  ( /\ lives > 0
                /\ RainGame_handleKeyDown(key)
                /\ matching # {}
                /\ words[first].text = typed ) =>
                    /\ Len(words') = Len(words) - 1
                    /\ \A k \in DOMAIN words' :
                          words'[k] = IF k < first THEN words[k] ELSE words[k + 1]
                    /\ score' = score + 10 * Len(words[first].text)
                    /\ currentInput' = <<>>
                    /\ (typed = ROCKET => score' = score + 60)
      ]_vars

C13_Witness ==
    /\ RainGameMounted
    /\ score = 60
    /\ currentInput = <<>>
    /\ Len(words) = 1 /\ words[1].text = ROCKET /\ words[1].y < 0

(* C14: the level changes only when a completed word takes the score from    *)
(* below a multiple of 100 to at or above it, and then it increases by one.  *)
C14_LevelFollowsScore ==
    [][ StaysMounted =>
          level' = IF score' > score
                      /\ score' \div LEVEL_SCORE_STEP > score \div LEVEL_SCORE_STEP
                   THEN level + 1
                   ELSE level
      ]_vars

(* C15: the spawn interval is 2000 less 10 for every spawn so far, and 800   *)
(* once that would be lower: it starts at 2000, decreases by exactly 10 at   *)
(* each spawn while above 800, stays within 800..2000, and stays 800 from    *)
(* then on (after 130 spawns too).  Under SpawnSpec every spawn so far is a  *)
(* request still waiting.                                                    *)
C15_SpawnIntervalFloored ==
    LET spawns == Len(wordReqs)
        ramp == INITIAL_SPAWN_RATE - SPAWN_RATE_STEP * spawns
    IN  /\ spawnRate = IF ramp > MIN_SPAWN_RATE THEN ramp ELSE MIN_SPAWN_RATE
        /\ MIN_SPAWN_RATE <= spawnRate /\ spawnRate <= INITIAL_SPAWN_RATE

C15_Witness ==
    /\ Len(wordReqs) >= 130
    /\ spawnRate = MIN_SPAWN_RATE

(* C16: an empty provider response (undefined, empty or blank text) is       *)
(* treated as a failure of the call: when such a response arrives, the       *)
(* practice text or the coaching tip that is set is the value the same       *)
(* capability returns when the call fails.                                   *)
C16_EmptyTreatedAsFailure ==
    [][ LET failed == [ok |-> FALSE, text |-> <<>>]
            Empty(o) == o.ok /\ \A n \in DOMAIN o.text : o.text[n] = " "
        IN  /\ \A o \in Outcomes :
                  (Empty(o) /\ \E i \in DOMAIN textReqs : TextResponse(i, o)) =>
                      text' = generateLessonContent(failed)
            /\ \A o \in AdviceOutcomes :
                  (Empty(o) /\ \E i \in DOMAIN adviceReqs : AdviceResponse(i, o)) =>
                      aiAdvice' = generateTypingAdvice(failed)
      ]_vars

(* C17: a printable keystroke accepted at position i of an unfinished        *)
(* session changes exactly the key-stat entry of the lowercase of the        *)
(* expected character text[i]: total + 1, errors + 1 iff the key differs     *)
(* from text[i]; every other entry is unchanged; Backspace changes no entry; *)
(* with no expected character at position i the map is unchanged.            *)
C17_OneEntryPerKeystroke ==
    [][ \A key \in Keys, now \in Instants :
          (~KeyIgnored /\ handleKeyDown(key, now)) =>
              LET StatOf(stats, ch) ==
                      {<<stats[n].total, stats[n].errors>> :
                          n \in {m \in DOMAIN stats : stats[m].char = ch}}
                  chars == {keyStats[n].char : n \in DOMAIN keyStats} \cup
                           {keyStats'[n].char : n \in DOMAIN keyStats'}
                  i == Len(userInput) + 1
              IN  IF key \in PrintableKeys /\ i <= Len(text)
                  THEN LET expected == text[i]
                           lower == IF expected = "W" THEN "w"
                                    ELSE IF expected = "T" THEN "t"
                                    ELSE expected
                           before == IF StatOf(keyStats, lower) = {}
                                     THEN <<0, 0>>
                                     ELSE CHOOSE st \in StatOf(keyStats, lower) : TRUE
                       IN  /\ StatOf(keyStats', lower) =
                                 {<<before[1] + 1,
                                    before[2] + (IF key = expected THEN 0 ELSE 1)>>}
                           /\ \A ch \in chars \ {lower} :
                                 StatOf(keyStats', ch) = StatOf(keyStats, ch)
                  ELSE keyStats' = keyStats
      ]_vars

C17_Witness ==
    /\ userInput = <<"a", "a">>
    /\ text = DEFAULT_TEXT
    /\ \E n \in DOMAIN keyStats :
          keyStats[n].char = "w" /\ keyStats[n].total = 1 /\ keyStats[n].errors = 1

(* C18: once lives are <= 0 no animation frame is requested any more, and    *)
(* no step changes the active words, score, lives, level, current input or   *)
(* spawn interval until a new game is mounted by Play Again or the menu.     *)
C18_NothingAfterGameOver ==
    [][ /\ lives <= 0 => frames = <<>>
        /\ lives' <= 0 => frames' = <<>>
        /\ (lives <= 0 /\ lives' <= 0) =>
              UNCHANGED <<words, score, lives, level, currentInput, spawnRate>>
        /\ (lives <= 0 /\ lives' > 0) =>
              /\ PlayAgain \/ ModeSwitchStep
              /\ lives' = INITIAL_LIVES /\ words' = <<>> /\ score' = 0
      ]_vars

C18_Witness ==
    /\ lives <= 0
    /\ frames = <<>>
    /\ mode = LESSON

(* C19: at most one animation frame is requested at any time; while the game *)
(* is mounted it is exactly one, the one requestRef names, and its callback  *)
(* is the current updateGame (the one made for the current lives, level and  *)
(* score); when the game is not mounted there is none.                       *)
C19_OneFramePending ==
    /\ Len(frames) <= 1
    /\ RainGameMounted => Len(frames) = 1
    /\ ~RainGameMounted => frames = <<>>
    /\ \A i \in DOMAIN frames :
          /\ frames[i].current
          /\ frames[i].cb = UpdateGameCallback(lives, level, score)

C19_Witness ==
    /\ RainGameMounted
    /\ score > 0
    /\ lives < INITIAL_LIVES
    /\ Len(frames) = 1

(* C20: the number of lives is always within 0..3.                           *)
C20_LivesWithinRange == lives \in 0 .. INITIAL_LIVES

(* C21: while the falling-word game is on, whenever its current input is    *)
(* non-empty at least one active word starts with it.                        *)
C21_InputIsPrefixOfActiveWord ==
    (RainGameMounted /\ currentInput # <<>>) =>
        \E k \in DOMAIN words :
            /\ Len(currentInput) <= Len(words[k].text)
            /\ \A n \in DOMAIN currentInput : words[k].text[n] = currentInput[n]

(* C22: the loading flag is true whenever a practice-text request is         *)
(* outstanding.                                                              *)
C22_LoadingWhileTextRequested == textReqs # <<>> => loading

(* C23: the active words of the falling-word game have pairwise distinct     *)
(* ids.                                                                      *)
C23_WordIdsDistinct ==
    \A j, k \in DOMAIN words : words[j].id = words[k].id => j = k

====
